---------------------------- MODULE Spec2Model ----------------------------
(***************************************************************************)
(* A model of indexer.py: the directory indexer that walks a tree, hashes  *)
(* every file, classifies it and records it in the indexed_files table.    *)
(*                                                                         *)
(* Strings are sequences of one-character strings, so that substring       *)
(* search, lower-casing, os.path.join, os.path.splitext and the regular    *)
(* expressions of .exclude_patterns are computed, not assumed.             *)
(***************************************************************************)
EXTENDS Naturals, Sequences, FiniteSets

VARIABLES
    pc,           \* per indexer process: where the call indexer(directory) is
    conn,         \* per process: "none" | "open" | "closed" (the psycopg2 connection)
    tree,         \* per process: the directory tree indexer() was called on
    exclude_patterns, \* per process: the compiled patterns of this run
    cur,          \* per process: the file of the current loop iteration
    visited,      \* per process: the files os.walk has already yielded
    file_index,   \* per process: the run's list of newly indexed entries
    hashed,       \* per process: paths _calculate_md5 was called on in this run
    lookedUp,     \* per process: paths whose hash was SELECTed in this run
    schemaFailed, \* per process: _create_database caught an exception
    failure,      \* per process: which statement raised out of indexer()
    rerun,        \* per process: a run over this tree had completed before
    startTable,   \* per process: the table as it was when this run started
    table,        \* the rows of indexed_files, in insertion order
    tableExists,  \* whether CREATE TABLE has ever committed
    runs,         \* number of calls of indexer() so far
    completed,    \* the trees over which some run reached "Indexing complete"
    cat_path,     \* input of the categorizer under test
    cat_ext,      \* input of the categorizer under test
    cat_result    \* its result, "?" before the call

idxVars == <<pc, conn, tree, exclude_patterns, cur, visited, file_index, hashed,
             lookedUp, schemaFailed, failure, rerun, startTable, table,
             tableExists, runs, completed>>
catVars == <<cat_path, cat_ext, cat_result>>
vars == <<idxVars, catVars>>

-----------------------------------------------------------------------------
(* Characters and strings *)

UpperCase == <<"A","B","C","D","E","F","G","H","I","J","K","L","M",
               "N","O","P","Q","R","S","T","U","V","W","X","Y","Z">>
LowerCase == <<"a","b","c","d","e","f","g","h","i","j","k","l","m",
               "n","o","p","q","r","s","t","u","v","w","x","y","z">>

LowerChar(c) ==
    IF \E k \in DOMAIN UpperCase : UpperCase[k] = c
    THEN LowerCase[CHOOSE k \in DOMAIN UpperCase : UpperCase[k] = c]
    ELSE c

\* str.lower()
Lower(s) == [k \in DOMAIN s |-> LowerChar(s[k])]

\* `keyword in s'
Contains(s, keyword) ==
    \E k \in 1..(Len(s) + 1 - Len(keyword)) :
        SubSeq(s, k, k + Len(keyword) - 1) = keyword

\* str.strip(), for the blanks a pattern line can carry
RECURSIVE LStrip(_)
LStrip(s) == IF s # <<>> /\ Head(s) = " " THEN LStrip(Tail(s)) ELSE s
RECURSIVE RStrip(_)
RStrip(s) ==
    IF s # <<>> /\ s[Len(s)] = " " THEN RStrip(SubSeq(s, 1, Len(s) - 1)) ELSE s
Strip(s) == RStrip(LStrip(s))

\* os.path.join(a, b)
Join(a, b) ==
    IF b # <<>> /\ Head(b) = "/" THEN b
    ELSE IF a = <<>> \/ a[Len(a)] = "/" THEN a \o b
    ELSE a \o <<"/">> \o b

\* os.path.splitext(file_name)[1]: from the last dot, unless only dots precede it
Splitext(file_name) ==
    LET dots == {k \in DOMAIN file_name : file_name[k] = "."} IN
    IF dots = {} THEN <<>>
    ELSE LET d == CHOOSE k \in dots : \A j \in dots : j <= k IN
         IF \E j \in 1..(d - 1) : file_name[j] # "."
         THEN SubSeq(file_name, d, Len(file_name))
         ELSE <<>>

-----------------------------------------------------------------------------
(* _detect_category *)

kw_movie      == <<"m","o","v","i","e">>
kw_movies     == <<"m","o","v","i","e","s">>
kw_tv         == <<"t","v">>
kw_show       == <<"s","h","o","w">>
kw_shows      == <<"s","h","o","w","s">>
kw_series     == <<"s","e","r","i","e","s">>
kw_book       == <<"b","o","o","k">>
kw_books      == <<"b","o","o","k","s">>
kw_audiobook  == <<"a","u","d","i","o","b","o","o","k">>
kw_audiobooks == <<"a","u","d","i","o","b","o","o","k","s">>

x_mp3  == <<".","m","p","3">>
x_wav  == <<".","w","a","v">>
x_flac == <<".","f","l","a","c">>
x_mp4  == <<".","m","p","4">>
x_avi  == <<".","a","v","i">>
x_mkv  == <<".","m","k","v">>
x_mov  == <<".","m","o","v">>
x_jpg  == <<".","j","p","g">>
x_jpeg == <<".","j","p","e","g">>
x_png  == <<".","p","n","g">>
x_gif  == <<".","g","i","f">>
x_bmp  == <<".","b","m","p">>
x_txt  == <<".","t","x","t">>
x_md   == <<".","m","d">>
x_log  == <<".","l","o","g">>
x_pdf  == <<".","p","d","f">>
x_doc  == <<".","d","o","c">>
x_docx == <<".","d","o","c","x">>
x_xls  == <<".","x","l","s">>
x_xlsx == <<".","x","l","s","x">>
x_ppt  == <<".","p","p","t">>
x_pptx == <<".","p","p","t","x">>

\* the dict of path keywords, in insertion (= iteration) order
categories == <<
    [category |-> "movie",     keywords |-> <<kw_movie, kw_movies>>],
    [category |-> "tv show",   keywords |-> <<kw_tv, kw_show, kw_shows, kw_series>>],
    [category |-> "book",      keywords |-> <<kw_book, kw_books>>],
    [category |-> "audiobook", keywords |-> <<kw_audiobook, kw_audiobooks>>] >>

\* the dict of extensions, in insertion order
extension_categories == <<
    [category |-> "audio",     extensions |-> <<x_mp3, x_wav, x_flac>>],
    [category |-> "video",     extensions |-> <<x_mp4, x_avi, x_mkv, x_mov>>],
    [category |-> "picture",   extensions |-> <<x_jpg, x_jpeg, x_png, x_gif, x_bmp>>],
    [category |-> "plaintext", extensions |-> <<x_txt, x_md, x_log>>],
    [category |-> "document",
     extensions |-> <<x_pdf, x_doc, x_docx, x_xls, x_xlsx, x_ppt, x_pptx>>] >>

\* the first loop as a bug would have it: the path is not lower-cased
RECURSIVE PathCategoryCaseSensitive(_, _)
PathCategoryCaseSensitive(file_path, k) ==
    IF k > Len(categories) THEN ""
    ELSE IF \E j \in DOMAIN categories[k].keywords :
                Contains(file_path, categories[k].keywords[j])
         THEN categories[k].category
         ELSE PathCategoryCaseSensitive(file_path, k + 1)

\* the first loop, from entry k on: the first category one of whose keywords is
\* in file_path.lower(); "" when the loop falls through
RECURSIVE PathCategory(_, _)
PathCategory(file_path, k) ==
    IF k > Len(categories) THEN ""
    ELSE IF \E j \in DOMAIN categories[k].keywords :
                Contains(Lower(file_path), categories[k].keywords[j])
         THEN categories[k].category
         ELSE PathCategory(file_path, k + 1)

\* the second loop, from entry k on
RECURSIVE ExtensionCategory(_, _)
ExtensionCategory(file_extension, k) ==
    IF k > Len(extension_categories) THEN "other"
    ELSE IF \E j \in DOMAIN extension_categories[k].extensions :
                extension_categories[k].extensions[j] = Lower(file_extension)
         THEN extension_categories[k].category
         ELSE ExtensionCategory(file_extension, k + 1)

\* _detect_category as a bug would have it: the extension decides first
DetectCategoryExtensionFirst(file_path, file_extension) ==
    IF ExtensionCategory(file_extension, 1) # "other"
    THEN ExtensionCategory(file_extension, 1)
    ELSE IF PathCategory(file_path, 1) # "" THEN PathCategory(file_path, 1)
    ELSE "other"

DetectCategory(file_path, file_extension) ==
    IF PathCategory(file_path, 1) # ""
    THEN PathCategory(file_path, 1)
    ELSE ExtensionCategory(file_extension, 1)

-----------------------------------------------------------------------------
(* Exclusion patterns: re.compile and pattern.search on the lines of          *)
(* .exclude_patterns.  The lines of the model are written with literal        *)
(* characters, backslash escapes, `.', a final `$' and the unbalanced openers *)
(* `(' and `[', which re.compile rejects.                                     *)

CompileError == [ok |-> FALSE, atoms |-> <<>>, atEnd |-> FALSE]

\* re.compile(line), reading line from position k
RECURSIVE CompileFrom(_, _)
CompileFrom(line, k) ==
    IF k > Len(line) THEN [ok |-> TRUE, atoms |-> <<>>, atEnd |-> FALSE]
    ELSE IF line[k] = "\\"
         THEN IF k = Len(line) THEN CompileError
              ELSE LET rest == CompileFrom(line, k + 2) IN
                   [rest EXCEPT !.atoms =
                        <<[any |-> FALSE, ch |-> line[k + 1]]>> \o @]
    ELSE IF line[k] \in {"(", "["} THEN CompileError
    ELSE IF line[k] = "$" /\ k = Len(line)
         THEN [ok |-> TRUE, atoms |-> <<>>, atEnd |-> TRUE]
    ELSE LET rest == CompileFrom(line, k + 1) IN
         [rest EXCEPT !.atoms =
              <<[any |-> line[k] = ".", ch |-> line[k]]>> \o @]

Compile(line) == CompileFrom(line, 1)

\* pattern.search(s): unanchored at the start, anchored at the end by `$'
Search(pattern, s) ==
    LET n == Len(pattern.atoms) IN
    \E k \in 1..(Len(s) + 1 - n) :
        /\ \A j \in 1..n : pattern.atoms[j].any \/ pattern.atoms[j].ch = s[k + j - 1]
        /\ pattern.atEnd => k + n - 1 = Len(s)

\* _should_exclude as a bug would have it: nothing is ever excluded
ShouldExcludeNever(file_path, patterns) == FALSE

ShouldExclude(file_path, patterns) ==
    \E k \in DOMAIN patterns : Search(patterns[k], file_path)

-----------------------------------------------------------------------------
(* The file system: the trees indexer() is called on.  A file is            *)
(* [dir, file_name, content, kind]: dir is its directory below the root     *)
(* (<<>> for the root itself), content names its bytes, kind is "ok",       *)
(* "unreadable" (open() raises) or "broken" (os.path.getsize raises, as for *)
(* a dangling symbolic link).                                               *)

n_exclude   == <<".","e","x","c","l","u","d","e","_","p","a","t","t","e","r","n","s">>
n_a_mp4     == <<"a",".","m","p","4">>
n_a_copy    == <<"a","_","c","o","p","y",".","m","p","4">>
n_readme    == <<"r","e","a","d","m","e",".","t","x","t">>
n_scratch   == <<"s","c","r","a","t","c","h",".","t","m","p">>
n_scratchbk == <<"s","c","r","a","t","c","h",".","t","m","p",".","b","a","k">>
n_locked    == <<"l","o","c","k","e","d",".","P","D","F">>
n_link      == <<"l","i","n","k",".","m","p","3">>
n_song      == <<"s","o","n","g",".","m","p","3">>
d_movies    == <<"m","o","v","i","e","s">>
d_backup    == <<"b","a","c","k","u","p">>
d_docs      == <<"d","o","c","s">>
d_cache     == <<"c","a","c","h","e">>
d_root      == <<"/","d">>

l_tmp    == <<"\\",".","t","m","p","$">>
l_tmp_sp == <<" ","\\",".","t","m","p","$"," ">>
l_blank  == <<" "," ">>
l_open   == <<"(","b","a","k">>

\* f.readlines() of a pattern file, by content
ContentLines(content) ==
    CASE content = "P" -> <<l_blank, l_tmp_sp>>
      [] content = "Q" -> <<l_tmp, l_open>>
      [] OTHER -> <<>>

\* hashlib.md5 over the bytes: one digest per content
Md5Digest(content) ==
    CASE content = "X" -> "02129bb8"
      [] content = "Y" -> "57cec412"
      [] content = "Z" -> "21c2e59f"
      [] content = "W" -> "d41d8cd9"
      [] content = "P" -> "44c29edb"
      [] content = "Q" -> "f09564c9"

\* the number of bytes of each content
ContentSize(content) ==
    CASE content = "X" -> 4096
      [] content = "Y" -> 12
      [] content = "Z" -> 4097
      [] content = "W" -> 0
      [] content = "P" -> 10
      [] content = "Q" -> 11

File(dir, file_name, content, kind) ==
    [dir |-> dir, file_name |-> file_name, content |-> content, kind |-> kind]

NoFile == File(<<>>, <<>>, "", "none")

Trees == [
  scenario |->
    [directory |-> d_root,
     files |-> {File(d_movies, n_a_mp4, "X", "ok"),
                File(d_backup, n_a_copy, "X", "ok"),
                File(d_docs, n_readme, "Y", "ok")}],
  excluding |->
    [directory |-> d_root,
     files |-> {File(<<>>, n_exclude, "P", "ok"),
                File(<<>>, n_scratch, "X", "ok"),
                File(<<>>, n_scratchbk, "Z", "ok"),
                File(d_cache, n_exclude, "Q", "ok")}],
  faulty |->
    [directory |-> d_root,
     files |-> {File(d_docs, n_song, "Y", "ok"),
                File(d_docs, n_link, "", "broken")}],
  badpattern |->
    [directory |-> d_root,
     files |-> {File(<<>>, n_exclude, "Q", "ok"),
                File(<<>>, n_locked, "W", "unreadable"),
                File(d_cache, n_scratch, "Z", "ok")}],
  empty |->
    [directory |-> d_root, files |-> {}] ]

TreeIds == DOMAIN Trees

\* the `root' os.walk yields for the directory of f
WalkRoot(t, f) ==
    IF f.dir = <<>> THEN Trees[t].directory ELSE Join(Trees[t].directory, f.dir)

\* file_path = os.path.join(root, file_name)
FilePath(t, f) == Join(WalkRoot(t, f), f.file_name)

\* _calculate_md5: the digest, or "None" when reading raises
CalculateMd5(f) == IF f.kind = "ok" THEN Md5Digest(f.content) ELSE "None"

\* the list comprehension of _load_exclusion_patterns from line k on;
\* ok is FALSE when some re.compile raised
RECURSIVE CompileLines(_, _)
CompileLines(lines, k) ==
    IF k > Len(lines) THEN [ok |-> TRUE, patterns |-> <<>>]
    ELSE LET rest == CompileLines(lines, k + 1) IN
         IF Strip(lines[k]) = <<>> THEN rest
         ELSE LET c == Compile(Strip(lines[k])) IN
              [ok |-> c.ok /\ rest.ok,
               patterns |-> <<[atoms |-> c.atoms, atEnd |-> c.atEnd]>> \o rest.patterns]

\* _load_exclusion_patterns(directory)
LoadExclusionPatterns(t) ==
    LET here == {f \in Trees[t].files : f.dir = <<>> /\ f.file_name = n_exclude} IN
    IF here = {} THEN <<>>
    ELSE LET f == CHOOSE g \in here : TRUE
             r == CompileLines(ContentLines(f.content), 1) IN
         IF f.kind = "ok" /\ r.ok THEN r.patterns ELSE <<>>

-----------------------------------------------------------------------------
(* The store and the processes *)

MaxRuns == 2

AllProcs == {"p1", "p2"}

Stopped == {"idle", "done", "aborted", "crashed"}

\* cursor.fetchone() of the SELECT as a bug would have it: never a row
ExistingFileNever(file_hash) == FALSE

\* SELECT * FROM indexed_files WHERE md5_hash = %s; fetchone() is a row
ExistingFile(file_hash) ==
    \E k \in DOMAIN table : table[k].md5_hash = file_hash

\* the UNIQUE constraint on md5_hash, as the INSERT meets it
UniqueViolation(file_hash) ==
    \E k \in DOMAIN table : table[k].md5_hash = file_hash

\* the row as a bug would insert it: the digest is taken of no bytes at all
NewRowEmptyDigest(t, f) ==
    [file_name |-> f.file_name,
     path      |-> FilePath(t, f),
     md5_hash  |-> Md5Digest("W"),
     file_size |-> ContentSize(f.content),
     category  |-> DetectCategory(FilePath(t, f), Splitext(f.file_name))]

\* the values of the INSERT (id and date_indexed are the store's own)
NewRow(t, f) ==
    [file_name |-> f.file_name,
     path      |-> FilePath(t, f),
     md5_hash  |-> CalculateMd5(f),
     file_size |-> ContentSize(f.content),
     category  |-> DetectCategory(FilePath(t, f), Splitext(f.file_name))]

\* the files os.walk has not yielded yet
Unvisited(i) == Trees[tree[i]].files \ visited[i]

\* what os.walk(directory) may yield next: top-down, the files of the root
\* before those of its subdirectories, each directory's files together; the
\* order of directories and of files within one is the file system's
Candidates(i) ==
    LET inRoot == {f \in Unvisited(i) : f.dir = <<>>}
        inCur  == {f \in Unvisited(i) : cur[i] # NoFile /\ f.dir = cur[i].dir}
    IN  IF inRoot # {} THEN inRoot
        ELSE IF inCur # {} THEN inCur
        ELSE Unvisited(i)

Init ==
    /\ pc = [i \in AllProcs |-> "idle"]
    /\ conn = [i \in AllProcs |-> "none"]
    /\ tree = [i \in AllProcs |-> "empty"]
    /\ exclude_patterns = [i \in AllProcs |-> <<>>]
    /\ cur = [i \in AllProcs |-> NoFile]
    /\ visited = [i \in AllProcs |-> {}]
    /\ file_index = [i \in AllProcs |-> <<>>]
    /\ hashed = [i \in AllProcs |-> {}]
    /\ lookedUp = [i \in AllProcs |-> {}]
    /\ schemaFailed = [i \in AllProcs |-> FALSE]
    /\ failure = [i \in AllProcs |-> "none"]
    /\ rerun = [i \in AllProcs |-> FALSE]
    /\ startTable = [i \in AllProcs |-> <<>>]
    /\ table = <<>>
    /\ tableExists = FALSE
    /\ runs = 0
    /\ completed = {}
    /\ cat_path = <<>>
    /\ cat_ext = <<>>
    /\ cat_result = "?"

\* indexer(directory) is called and psycopg2.connect returns
Connect(i) ==
    /\ pc[i] \in Stopped
    /\ runs < MaxRuns
    /\ \E t \in TreeIds :
        /\ tree' = [tree EXCEPT ![i] = t]
        /\ rerun' = [rerun EXCEPT ![i] = t \in completed]
    /\ runs' = runs + 1
    /\ pc' = [pc EXCEPT ![i] = "connected"]
    /\ conn' = [conn EXCEPT ![i] = "open"]
    /\ exclude_patterns' = [exclude_patterns EXCEPT ![i] = <<>>]
    /\ cur' = [cur EXCEPT ![i] = NoFile]
    /\ visited' = [visited EXCEPT ![i] = {}]
    /\ file_index' = [file_index EXCEPT ![i] = <<>>]
    /\ hashed' = [hashed EXCEPT ![i] = {}]
    /\ lookedUp' = [lookedUp EXCEPT ![i] = {}]
    /\ schemaFailed' = [schemaFailed EXCEPT ![i] = FALSE]
    /\ failure' = [failure EXCEPT ![i] = "none"]
    /\ startTable' = [startTable EXCEPT ![i] = table]
    /\ UNCHANGED <<table, tableExists, completed, catVars>>

\* indexer(directory) is called and psycopg2.connect raises: logged, return
ConnectFail(i) ==
    /\ pc[i] \in Stopped
    /\ runs < MaxRuns
    /\ \E t \in TreeIds :
        /\ tree' = [tree EXCEPT ![i] = t]
        /\ rerun' = [rerun EXCEPT ![i] = t \in completed]
    /\ runs' = runs + 1
    /\ pc' = [pc EXCEPT ![i] = "aborted"]
    /\ conn' = [conn EXCEPT ![i] = "none"]
    /\ exclude_patterns' = [exclude_patterns EXCEPT ![i] = <<>>]
    /\ cur' = [cur EXCEPT ![i] = NoFile]
    /\ visited' = [visited EXCEPT ![i] = {}]
    /\ file_index' = [file_index EXCEPT ![i] = <<>>]
    /\ hashed' = [hashed EXCEPT ![i] = {}]
    /\ lookedUp' = [lookedUp EXCEPT ![i] = {}]
    /\ schemaFailed' = [schemaFailed EXCEPT ![i] = FALSE]
    /\ failure' = [failure EXCEPT ![i] = "connect"]
    /\ startTable' = [startTable EXCEPT ![i] = table]
    /\ UNCHANGED <<table, tableExists, completed, catVars>>

\* _create_database: CREATE TABLE IF NOT EXISTS and commit succeed
CreateDatabase(i) ==
    /\ pc[i] = "connected"
    /\ tableExists' = TRUE
    /\ pc' = [pc EXCEPT ![i] = "prepared"]
    /\ UNCHANGED <<conn, tree, exclude_patterns, cur, visited, file_index, hashed,
                   lookedUp, schemaFailed, failure, rerun, startTable, table,
                   runs, completed, catVars>>

\* _create_database: the statement or the commit raises; the except clause
\* logs it and the function returns normally.  The connection is left in a
\* failed transaction (or lost), so its later statements raise.
CreateDatabaseFail(i) ==
    /\ pc[i] = "connected"
    /\ schemaFailed' = [schemaFailed EXCEPT ![i] = TRUE]
    /\ pc' = [pc EXCEPT ![i] = "prepared"]
    /\ UNCHANGED <<conn, tree, exclude_patterns, cur, visited, file_index, hashed,
                   lookedUp, failure, rerun, startTable, table, tableExists,
                   runs, completed, catVars>>

\* exclude_patterns = _load_exclusion_patterns(directory)
LoadPatterns(i) ==
    /\ pc[i] = "prepared"
    /\ exclude_patterns' =
           [exclude_patterns EXCEPT ![i] = LoadExclusionPatterns(tree[i])]
    /\ pc' = [pc EXCEPT ![i] = "walk"]
    /\ UNCHANGED <<conn, tree, cur, visited, file_index, hashed, lookedUp,
                   schemaFailed, failure, rerun, startTable, table, tableExists,
                   runs, completed, catVars>>

\* one iteration of the loop over os.walk, up to and including _calculate_md5:
\* the pattern file and excluded files are skipped, os.path.getsize raises
\* out of indexer() for a file it cannot stat, an unreadable file is skipped
VisitFile(i) ==
    /\ pc[i] = "walk"
    /\ \E f \in Candidates(i) :
        LET file_path == FilePath(tree[i], f) IN
        /\ cur' = [cur EXCEPT ![i] = f]
        /\ visited' = [visited EXCEPT ![i] = @ \cup {f}]
        /\ IF f.file_name = n_exclude \/ ShouldExclude(file_path, exclude_patterns[i])
           THEN UNCHANGED <<pc, hashed, failure>>
           ELSE IF f.kind = "broken"
           THEN /\ pc' = [pc EXCEPT ![i] = "crashed"]
                /\ failure' = [failure EXCEPT ![i] = "getsize"]
                /\ UNCHANGED hashed
           ELSE /\ hashed' = [hashed EXCEPT ![i] = @ \cup {file_path}]
                /\ pc' = [pc EXCEPT ![i] =
                              IF CalculateMd5(f) = "None" THEN "walk" ELSE "lookup"]
                /\ UNCHANGED failure
    /\ UNCHANGED <<conn, tree, exclude_patterns, file_index, lookedUp,
                   schemaFailed, rerun, startTable, table, tableExists, runs,
                   completed, catVars>>

\* the SELECT by md5_hash returns: a row means `continue'
Lookup(i) ==
    /\ pc[i] = "lookup"
    /\ ~schemaFailed[i]
    /\ lookedUp' = [lookedUp EXCEPT ![i] = @ \cup {FilePath(tree[i], cur[i])}]
    /\ pc' = [pc EXCEPT ![i] =
                  IF ExistingFile(CalculateMd5(cur[i])) THEN "walk" ELSE "insert"]
    /\ UNCHANGED <<conn, tree, exclude_patterns, cur, visited, file_index, hashed,
                   schemaFailed, failure, rerun, startTable, table, tableExists,
                   runs, completed, catVars>>

\* the SELECT raises (the store fails, or the transaction is the failed one
\* _create_database left): nothing catches it, indexer() is left by the exception
LookupFail(i) ==
    /\ pc[i] = "lookup"
    /\ lookedUp' = [lookedUp EXCEPT ![i] = @ \cup {FilePath(tree[i], cur[i])}]
    /\ pc' = [pc EXCEPT ![i] = "crashed"]
    /\ failure' = [failure EXCEPT ![i] = "select"]
    /\ UNCHANGED <<conn, tree, exclude_patterns, cur, visited, file_index, hashed,
                   schemaFailed, rerun, startTable, table, tableExists, runs,
                   completed, catVars>>

\* _detect_category, the INSERT and the commit; the UNIQUE constraint makes
\* the INSERT raise, and nothing catches it
Insert(i) ==
    /\ pc[i] = "insert"
    /\ LET row == NewRow(tree[i], cur[i]) IN
       IF UniqueViolation(row.md5_hash)
       THEN /\ pc' = [pc EXCEPT ![i] = "crashed"]
            /\ failure' = [failure EXCEPT ![i] = "unique"]
            /\ UNCHANGED <<table, file_index>>
       ELSE /\ table' = Append(table, row)
            /\ file_index' = [file_index EXCEPT ![i] = Append(@, row)]
            /\ pc' = [pc EXCEPT ![i] = "walk"]
            /\ UNCHANGED failure
    /\ UNCHANGED <<conn, tree, exclude_patterns, cur, visited, hashed, lookedUp,
                   schemaFailed, rerun, startTable, tableExists, runs, completed,
                   catVars>>

\* the INSERT or its commit raises for a reason of the store's: no row
InsertFail(i) ==
    /\ pc[i] = "insert"
    /\ pc' = [pc EXCEPT ![i] = "crashed"]
    /\ failure' = [failure EXCEPT ![i] = "insert"]
    /\ UNCHANGED <<conn, tree, exclude_patterns, cur, visited, file_index, hashed,
                   lookedUp, schemaFailed, rerun, startTable, table, tableExists,
                   runs, completed, catVars>>

\* the walk is exhausted: "Indexing complete", connection.close()
Finalize(i) ==
    /\ pc[i] = "walk"
    /\ Unvisited(i) = {}
    /\ pc' = [pc EXCEPT ![i] = "done"]
    /\ conn' = [conn EXCEPT ![i] = "closed"]
    /\ completed' = completed \cup {tree[i]}
    /\ UNCHANGED <<tree, exclude_patterns, cur, visited, file_index, hashed,
                   lookedUp, schemaFailed, failure, rerun, startTable, table,
                   tableExists, runs, catVars>>

Step(i) ==
    \/ Connect(i)
    \/ ConnectFail(i)
    \/ CreateDatabase(i)
    \/ CreateDatabaseFail(i)
    \/ LoadPatterns(i)
    \/ VisitFile(i)
    \/ Lookup(i)
    \/ LookupFail(i)
    \/ Insert(i)
    \/ InsertFail(i)
    \/ Finalize(i)

\* one indexer at a time
Next == Step("p1")

Spec == Init /\ [][Next]_vars

\* two indexers against the same store
ConcNext == \E i \in AllProcs : Step(i)

SpecConc == Init /\ [][ConcNext]_vars

-----------------------------------------------------------------------------
(* The categorizer alone, on drawn inputs *)

w_Movies     == <<"M","o","v","i","e","s">>
w_TV         == <<"T","V">>
w_shows      == <<"s","h","o","w","s">>
w_Series     == <<"S","e","r","i","e","s">>
w_mybooks    == <<"m","y","b","o","o","k","s">>
w_AudioBooks == <<"A","u","d","i","o","B","o","o","k","s">>
w_audiobook  == <<"a","u","d","i","o","b","o","o","k">>
w_music      == <<"m","u","s","i","c">>
w_data       == <<"d","a","t","a">>
x_MP3        == <<".","M","P","3">>
x_Jpeg       == <<".","J","p","e","g">>
x_unknown    == <<".","u","n","k","n","o","w","n","e","x","t">>

CatWords == {w_Movies, kw_movie, w_TV, w_shows, w_Series, w_mybooks,
             w_AudioBooks, w_audiobook, w_music, w_data}

CatPaths == {Join(Join(Join(d_root, a), b), n_a_mp4) : a, b \in CatWords}

CatExts == {x_mp3, x_MP3, x_mp4, x_Jpeg, x_txt, x_pdf, x_unknown, <<>>}

CatInit ==
    /\ pc = [i \in AllProcs |-> "idle"]
    /\ conn = [i \in AllProcs |-> "none"]
    /\ tree = [i \in AllProcs |-> "empty"]
    /\ exclude_patterns = [i \in AllProcs |-> <<>>]
    /\ cur = [i \in AllProcs |-> NoFile]
    /\ visited = [i \in AllProcs |-> {}]
    /\ file_index = [i \in AllProcs |-> <<>>]
    /\ hashed = [i \in AllProcs |-> {}]
    /\ lookedUp = [i \in AllProcs |-> {}]
    /\ schemaFailed = [i \in AllProcs |-> FALSE]
    /\ failure = [i \in AllProcs |-> "none"]
    /\ rerun = [i \in AllProcs |-> FALSE]
    /\ startTable = [i \in AllProcs |-> <<>>]
    /\ table = <<>>
    /\ tableExists = FALSE
    /\ runs = 0
    /\ completed = {}
    /\ cat_path \in CatPaths
    /\ cat_ext \in CatExts
    /\ cat_result = "?"

\* the call _detect_category(cat_path, cat_ext)
CatDetect ==
    /\ cat_result = "?"
    /\ cat_result' = DetectCategory(cat_path, cat_ext)
    /\ UNCHANGED <<idxVars, cat_path, cat_ext>>

CatNext == CatDetect

SpecCat == CatInit /\ [][CatNext]_vars

-----------------------------------------------------------------------------
(* Properties *)

p_a_mp4     == Join(Join(d_root, d_movies), n_a_mp4)
p_a_copy    == Join(Join(d_root, d_backup), n_a_copy)
p_readme    == Join(Join(d_root, d_docs), n_readme)
p_song      == Join(Join(d_root, d_docs), n_song)
p_scratch   == Join(d_root, n_scratch)
p_scratchbk == Join(d_root, n_scratchbk)

\* the files of the current run whose loop iteration is over without an exception
Processed(i) ==
    {f \in visited[i] : f # cur[i] \/ pc[i] \in {"walk", "done"}}

\* C1: with one indexer at a time, no two rows of the table have the same
\* md5_hash; a file whose hash is already in the table never reaches the
\* INSERT (the lookup finds it and it is skipped), so the UNIQUE constraint
\* is never met; and every file whose lookup is over has its content in the
\* table exactly once, under the path that met the table without that hash.
C1_OneRowPerContent ==
    /\ \A j, k \in DOMAIN table :
           table[j].md5_hash = table[k].md5_hash => j = k
    /\ pc["p1"] = "insert" => ~UniqueViolation(CalculateMd5(cur["p1"]))
    /\ failure["p1"] # "unique"
    /\ \A f \in Processed("p1") :
           FilePath(tree["p1"], f) \in lookedUp["p1"] =>
               Cardinality({k \in DOMAIN table :
                                table[k].md5_hash = Md5Digest(f.content)}) = 1
    /\ \A k \in DOMAIN file_index["p1"] :
           /\ file_index["p1"][k].path \in lookedUp["p1"]
           /\ \A j \in DOMAIN startTable["p1"] :
                  startTable["p1"][j].md5_hash # file_index["p1"][k].md5_hash

\* C1 witness: a later run meets docs/song.mp3, whose bytes are those of the
\* docs/readme.txt indexed before; the lookup has found it and it is skipped
C1_Witness ==
    /\ pc["p1"] = "walk"
    /\ p_song \in lookedUp["p1"]
    /\ \E k \in DOMAIN table :
           table[k].md5_hash = Md5Digest("Y") /\ table[k].path = p_readme
    /\ \A k \in DOMAIN table : table[k].path # p_song

\* C2: a run over a tree over which a run has completed before attempts no
\* INSERT, appends nothing to its list of newly indexed files (it reports 0)
\* and leaves the table as it found it.
C2_RerunInsertsNothing ==
    rerun["p1"] =>
        /\ pc["p1"] # "insert"
        /\ file_index["p1"] = <<>>
        /\ table = startTable["p1"]

\* C2 witness: the second run over the scenario tree has completed, having
\* looked up its files in a table that holds them
C2_Witness ==
    /\ rerun["p1"]
    /\ pc["p1"] = "done"
    /\ tree["p1"] = "scenario"
    /\ Cardinality(lookedUp["p1"]) = 3
    /\ Len(table) = 2

\* C3: once the schema exists, no failure on a single file (its size, its
\* hash, its lookup, its insert) ends the run by an exception.
C3_PerFileFailureNotFatal ==
    ~schemaFailed["p1"] => pc["p1"] # "crashed"

\* C4: when two indexers race on files of identical content, the table keeps
\* one row per hash and the indexer whose INSERT meets the UNIQUE constraint
\* goes on with its walk.
C4_LostRaceIsSkipped ==
    /\ \A j, k \in DOMAIN table :
           table[j].md5_hash = table[k].md5_hash => j = k
    /\ \A i \in AllProcs : failure[i] = "unique" => pc[i] # "crashed"

\* C5: a file named .exclude_patterns, and a file whose path one of the
\* run's loaded patterns matches, is never given to _calculate_md5, never
\* looked up and never inserted by the run.
C5_ExcludedUntouched ==
    \A f \in Trees[tree["p1"]].files :
        LET file_path == FilePath(tree["p1"], f) IN
        (\/ f.file_name = n_exclude
         \/ \E k \in DOMAIN exclude_patterns["p1"] :
                Search(exclude_patterns["p1"][k], file_path))
        => /\ file_path \notin hashed["p1"]
           /\ file_path \notin lookedUp["p1"]
           /\ \A k \in DOMAIN file_index["p1"] :
                  file_index["p1"][k].path # file_path

\* C5 witness: the run over the tree whose .exclude_patterns holds \.tmp$ has
\* completed; scratch.tmp.bak was indexed, scratch.tmp was walked past
C5_Witness ==
    /\ pc["p1"] = "done"
    /\ tree["p1"] = "excluding"
    /\ Len(exclude_patterns["p1"]) = 1
    /\ \E f \in visited["p1"] : f.file_name = n_scratch
    /\ p_scratch \notin hashed["p1"]
    /\ \E k \in DOMAIN file_index["p1"] : file_index["p1"][k].path = p_scratchbk

\* C6: after _create_database has failed, no file is walked, hashed or looked
\* up, and the run does not complete.
C6_SchemaFailureFatal ==
    schemaFailed["p1"] =>
        /\ visited["p1"] = {}
        /\ hashed["p1"] = {}
        /\ lookedUp["p1"] = {}
        /\ pc["p1"] # "done"

\* C7: a run that has ended, normally or by an exception, does not leave its
\* connection open.
C7_ConnectionClosed ==
    pc["p1"] \in {"done", "aborted", "crashed"} => conn["p1"] # "open"

\* the rows of the table without the file name and the size
RowsBrief == {[path |-> table[k].path, md5_hash |-> table[k].md5_hash,
               category |-> table[k].category] : k \in DOMAIN table}

FirstScenarioRunDone ==
    pc["p1"] = "done" /\ tree["p1"] = "scenario" /\ startTable["p1"] = <<>>

\* C8 as stated: whatever the order of the walk, the first run over the
\* scenario tree leaves movies/a.mp4 (movie) and docs/readme.txt (plaintext).
C8_MoviesRowWins ==
    FirstScenarioRunDone =>
        /\ Len(table) = 2
        /\ RowsBrief =
             {[path |-> p_a_mp4, md5_hash |-> Md5Digest("X"), category |-> "movie"],
              [path |-> p_readme, md5_hash |-> Md5Digest("Y"),
               category |-> "plaintext"]}

\* C8 amended: the first completed run over the scenario tree leaves two
\* rows: docs/readme.txt (plaintext), and one row for the content X, which is
\* movies/a.mp4 (movie) or backup/a_copy.mp4 (video); both files with X were
\* hashed and looked up.
C8_FirstWalkedRowWins ==
    FirstScenarioRunDone =>
        /\ Len(table) = 2
        /\ \/ RowsBrief =
               {[path |-> p_a_mp4, md5_hash |-> Md5Digest("X"), category |-> "movie"],
                [path |-> p_readme, md5_hash |-> Md5Digest("Y"),
                 category |-> "plaintext"]}
           \/ RowsBrief =
               {[path |-> p_a_copy, md5_hash |-> Md5Digest("X"), category |-> "video"],
                [path |-> p_readme, md5_hash |-> Md5Digest("Y"),
                 category |-> "plaintext"]}
        /\ {p_a_mp4, p_a_copy} \subseteq lookedUp["p1"]
        /\ Len(file_index["p1"]) = 2

\* C8 witness: the first run over the scenario tree has completed and the row
\* for X is the one of movies/a.mp4
C8_Witness ==
    /\ FirstScenarioRunDone
    /\ \E k \in DOMAIN table : table[k].path = p_a_mp4 /\ table[k].category = "movie"

Labels == {"movie", "tv show", "book", "audiobook", "audio", "video", "picture",
           "plaintext", "document", "other"}

HasKeyword(file_path, keywords) ==
    \E kw \in keywords : Contains(Lower(file_path), kw)

\* C9: _detect_category returns movie when the lower-cased path holds a movie
\* keyword; else tv show, else book, else audiobook in the same way; else the
\* category of the lower-cased extension; else other; always a fixed label.
C9_Categorize ==
    cat_result # "?" =>
        LET movie == HasKeyword(cat_path, {kw_movie, kw_movies})
            tv    == HasKeyword(cat_path, {kw_tv, kw_show, kw_shows, kw_series})
            book  == HasKeyword(cat_path, {kw_book, kw_books})
            audiobook == HasKeyword(cat_path, {kw_audiobook, kw_audiobooks})
            none  == ~movie /\ ~tv /\ ~book /\ ~audiobook
            e     == Lower(cat_ext)
        IN  /\ cat_result \in Labels
            /\ movie => cat_result = "movie"
            /\ ~movie /\ tv => cat_result = "tv show"
            /\ ~movie /\ ~tv /\ book => cat_result = "book"
            /\ ~movie /\ ~tv /\ ~book /\ audiobook => cat_result = "audiobook"
            /\ none /\ e \in {x_mp3, x_wav, x_flac} => cat_result = "audio"
            /\ none /\ e \in {x_mp4, x_avi, x_mkv, x_mov} => cat_result = "video"
            /\ none /\ e \in {x_jpg, x_jpeg, x_png, x_gif, x_bmp}
                   => cat_result = "picture"
            /\ none /\ e \in {x_txt, x_md, x_log} => cat_result = "plaintext"
            /\ none /\ e \in {x_pdf, x_doc, x_docx, x_xls, x_xlsx, x_ppt, x_pptx}
                   => cat_result = "document"
            /\ none /\ e \in {x_unknown, <<>>} => cat_result = "other"

\* C9 witness: a path holding "Movies" with the extension .MP3 was categorized
C9_Witness ==
    /\ cat_result = "movie"
    /\ Contains(cat_path, w_Movies)
    /\ cat_ext = x_MP3

\* C10: a path that holds "audiobook" and no movie or tv-show keyword is
\* categorized audiobook.
C10_AudiobookReachable ==
    (/\ cat_result # "?"
     /\ HasKeyword(cat_path, {kw_audiobook, kw_audiobooks})
     /\ ~HasKeyword(cat_path, {kw_movie, kw_movies, kw_tv, kw_show, kw_shows,
                               kw_series}))
    => cat_result = "audiobook"

=============================================================================
